---- MODULE Spec2Model ----
(***************************************************************************)
(* Model of semantic_sql_db (src/semantic_sql.py): one instance that binds  *)
(* a relational table to a vector collection and writes every row to both. *)
(*                                                                         *)
(* Text values are sequences of one-character strings, so that the         *)
(* formatting the code applies to them (str(tuple).replace(",", ""))       *)
(* is computed and not assumed.  A row is a function from column names to  *)
(* values; its DOMAIN is the dict's key set.                               *)
(***************************************************************************)
EXTENDS Integers, Sequences, FiniteSets, TLC

\* ---------------------------------------------------------------- bounds
MaxBatch == 2       \* rows in one insert call
MaxRows == 2        \* rows a table holds before the model stops inserting
MaxUuids == 2       \* identities uuid4 hands out in one behaviour
MaxGetList == 1     \* identities in a list passed to get
MaxSentences == 2   \* sentences in a text given to insert_text_in_chunks

\* ---------------------------------------------------------------- values
None == "None"              \* Python None held in an attribute; str(None)
NoneSchema == [None |-> "None"]     \* table_sql_schema = None
NoIds == [given |-> FALSE, ids |-> <<>>]        \* text_ids = None
SomeIds(ids) == [given |-> TRUE, ids |-> ids]   \* text_ids = a list
NullValue == <<"NULL">>     \* Python None / SQL NULL as a column value
Now == <<"now">>            \* what DEFAULT CURRENT_TIMESTAMP stores

UuidTokens == <<"u1", "u2", "u3", "u4", "u5", "u6", "u7", "u8">>

\* the n-th value of str(uuid.uuid4()): fresh, and free of commas
uuid4(n) == <<UuidTokens[n]>>

IdA == <<"a">>
IdAComma == <<"a", ",">>
IdB == <<"b">>
T1 == <<"t1">>
T2 == <<"t2">>
DocX == <<"x">>
C0 == <<"c0">>
Zed == <<"z">>

\* the schema ChatAgent binds for its documents (its INTEGER column left out)
documents_table_schema ==
    [id |-> "TEXT PRIMARY KEY",
     text |-> "TEXT NOT NULL",
     created_at |-> "DATETIME DEFAULT CURRENT_TIMESTAMP",
     doc_name |-> "TEXT"]

TableNames == {"documents"}

\* ---------------------------------------------------------------- helpers
Range(s) == {s[i] : i \in 1..Len(s)}

SeqsUpTo(S, n) == UNION {[1..k -> S] : k \in 0..n}

Min(a, b) == IF a < b THEN a ELSE b

\* d[k] = v on a dict: adds the key or overwrites it
SetKey(d, k, v) == [x \in DOMAIN d \cup {k} |-> IF x = k THEN v ELSE d[x]]

\* del d[k]
DelKey(d, k) == [x \in DOMAIN d \ {k} |-> d[x]]

\* the order in which a set of positions is visited
RECURSIVE SortedSeq(_)
SortedSeq(S) ==
    IF S = {} THEN <<>>
    ELSE LET m == CHOOSE x \in S : \A y \in S : x <= y
         IN <<m>> \o SortedSeq(S \ {m})

\* ------------------------------------------- relational store (local_sql_db)
\* sql: function from the names of the existing tables to
\*      [schema |-> column declarations, rows |-> stored rows in rowid order]

PrimaryKey(schema) == {c \in DOMAIN schema : schema[c] = "TEXT PRIMARY KEY"}
NotNullCols(schema) == {c \in DOMAIN schema : schema[c] = "TEXT NOT NULL"}

\* the row as the table stores it: every column, defaults filled in
StoredRow(schema, r) ==
    [c \in DOMAIN schema |->
        IF c \in DOMAIN r THEN r[c]
        ELSE IF schema[c] = "DATETIME DEFAULT CURRENT_TIMESTAMP" THEN Now
        ELSE NullValue]

\* may the bulk insert of data into table name go through
InsertAccepted(sql, name, data) ==
    /\ name \in DOMAIN sql
    /\ LET schema == sql[name].schema
           stored == [i \in 1..Len(data) |-> StoredRow(schema, data[i])]
       IN /\ \A i \in 1..Len(data) : DOMAIN data[i] \subseteq DOMAIN schema
          /\ \A i \in 1..Len(data) : \A c \in NotNullCols(schema) :
                stored[i][c] # NullValue
          /\ \A c \in PrimaryKey(schema) :
                /\ \A i, j \in 1..Len(data) :
                      (i # j /\ stored[i][c] # NullValue) => stored[i][c] # stored[j][c]
                /\ \A i \in 1..Len(data) : \A j \in 1..Len(sql[name].rows) :
                      stored[i][c] # NullValue => stored[i][c] # sql[name].rows[j][c]

\* insert_data(table_name, data): all rows or none
insert_data(sql, name, data) ==
    IF InsertAccepted(sql, name, data)
    THEN [ok |-> TRUE,
          sql |-> [sql EXCEPT ![name].rows =
                     @ \o [i \in 1..Len(data) |-> StoredRow(sql[name].schema, data[i])]]]
    ELSE [ok |-> FALSE, sql |-> sql]

\* create_table(name, schema): creates the table unless it exists with this schema
create_table(sql, name, schema) ==
    IF name \notin DOMAIN sql
    THEN [ok |-> TRUE,
          sql |-> [n \in DOMAIN sql \cup {name} |->
                     IF n = name THEN [schema |-> schema, rows |-> <<>>] ELSE sql[n]]]
    ELSE [ok |-> sql[name].schema = schema, sql |-> sql]

\* get_schema(name): the live column declarations
get_schema(sql, name) ==
    IF name \in DOMAIN sql THEN [ok |-> TRUE, schema |-> sql[name].schema]
    ELSE [ok |-> FALSE, schema |-> NoneSchema]

\* A statement is [select, from, where]; where is one of
\*   [kind |-> "eq_param", col, param]   col = ?      bound to one value
\*   [kind |-> "in_param", col, params]  col in ?     bound to the values
\*   [kind |-> "in_list", col, list]     col IN (literal, ...)
\*   [kind |-> "pred", col, val]         caller's text: col = 'val'
\*   [kind |-> "all", col]               no filter on the rows
Keeps(w, r) ==
    CASE w.kind = "eq_param" -> r[w.col] = w.param
      [] w.kind = "in_list" -> r[w.col] \in Range(w.list)
      [] w.kind = "pred" -> r[w.col] = w.val
      [] w.kind = "all" -> TRUE
      [] OTHER -> FALSE

\* query_data(query, params): the rows in rowid order, whole rows for
\* SELECT * and one-column tuples for SELECT col.  The store fails on a
\* missing table or column, and on "in ?": IN takes a parenthesised list
\* or a table name, so a bare placeholder after it does not parse.
query_data(sql, q) ==
    IF \/ q.from \notin DOMAIN sql
       \/ q.where.kind = "in_param"
    THEN [ok |-> FALSE, rows |-> <<>>]
    ELSE IF \/ q.where.col \notin DOMAIN sql[q.from].schema
            \/ (q.select # "*" /\ q.select \notin DOMAIN sql[q.from].schema)
    THEN [ok |-> FALSE, rows |-> <<>>]
    ELSE LET kept == SelectSeq(sql[q.from].rows, LAMBDA r : Keeps(q.where, r))
         IN [ok |-> TRUE,
             rows |-> IF q.select = "*" THEN kept
                      ELSE [i \in 1..Len(kept) |-> <<kept[i][q.select]>>]]

\* ------------------------------------------- vector store (local_semantic_db)
\* vec: function from the names of the existing collections to the sequence
\*      of entries [id, text, metadata] each holds

\* set_collection handing out an empty collection every time
set_collectionReset(vec, name) ==
    [n \in DOMAIN vec \cup {name} |-> IF n = name THEN <<>> ELSE vec[n]]

\* set_collection(name): the collection is created if absent
set_collection(vec, name) ==
    IF name \in DOMAIN vec THEN vec
    ELSE [n \in DOMAIN vec \cup {name} |-> IF n = name THEN <<>> ELSE vec[n]]

EntryIds(entries) == {entries[i].id : i \in 1..Len(entries)}

\* batch_insert(texts, metadatas, text_ids) on collection name.
\* text_ids = None: the adapter makes up identities (fresh ones).
\* onDup: what the adapter does with an identity the collection already
\* holds or the batch repeats ("error", "ignore" the entry, "upsert" it).
batch_insert(vec, name, texts, metadatas, text_ids, onDup, fresh) ==
    LET n == Len(texts)
        ids == IF text_ids.given THEN text_ids.ids ELSE [i \in 1..n |-> uuid4(fresh + i)]
        lengthsOk == Len(metadatas) = n /\ Len(ids) = n
        old == IF name \in DOMAIN vec THEN vec[name] ELSE <<>>
        entry(i) == [id |-> ids[i], text |-> texts[i], metadata |-> metadatas[i]]
        isDup(i) == \/ ids[i] \in EntryIds(old)
                    \/ \E j \in 1..(i - 1) : ids[j] = ids[i]
        \* the last entry of the batch with the identity wins an upsert
        lastOf(i) == \A j \in (i + 1)..n : ids[j] # ids[i]
        kept == [j \in 1..Len(old) |->
                   IF onDup = "upsert" /\ \E i \in 1..n : ids[i] = old[j].id
                   THEN entry(CHOOSE i \in 1..n : ids[i] = old[j].id /\ lastOf(i))
                   ELSE old[j]]
        addedAt == {i \in 1..n :
                      IF onDup = "upsert" THEN ids[i] \notin EntryIds(old) /\ lastOf(i)
                      ELSE ~isDup(i)}
        order == SortedSeq(addedAt)
        added == [k \in 1..Len(order) |-> entry(order[k])]
    IN IF name \notin DOMAIN vec \/ ~lengthsOk THEN [ok |-> FALSE, vec |-> vec]
       ELSE IF onDup = "error" /\ \E i \in 1..n : isDup(i) THEN [ok |-> FALSE, vec |-> vec]
       ELSE [ok |-> TRUE, vec |-> [vec EXCEPT ![name] = kept \o added]]

\* the entries a where-filter {field: {"$in": ids_list}} admits
Admitted(entries, field, ids_list) ==
    {i \in 1..Len(entries) :
        /\ field \in DOMAIN entries[i].metadata
        /\ entries[i].metadata[field] \in Range(ids_list)}

\* query(query_text, top_k, where): the possible answers.  Which admitted
\* entries are nearest to query_text is the embedding's business, so any
\* top_k of them, in any one order, may come back; fewer only when fewer exist.
VectorAnswers(entries, top_k, field, ids_list) ==
    LET adm == Admitted(entries, field, ids_list)
        k == Min(top_k, Cardinality(adm))
    IN {[i \in 1..k |-> entries[SortedSeq(S)[i]]] : S \in {T \in SUBSET adm : Cardinality(T) = k}}

\* ---------------------------------------------------------------- state
VARIABLES
    table_name,             \* self.table_name
    table_sql_schema,       \* self.table_sql_schema
    semantic_search_field,  \* self.semantic_search_field
    unique_id_field,        \* self.unique_id_field
    collection,             \* self.semantic_db's active collection
    sql,                    \* the tables of self.sql_db
    vec,                    \* the collections of self.semantic_db
    uuid_count,             \* identities uuid4 has handed out
    last,                   \* the latest call: its arguments and its outcome
    inserted,               \* history: [id, row] of every row an insert that returned was given
    insert_failed,          \* history: some insert call has raised
    threads,                \* the calls under way on threads that share the instance
    agent                   \* the ChatAgent that owns the instance, if one does

vars == <<table_name, table_sql_schema, semantic_search_field, unique_id_field,
          collection, sql, vec, uuid_count, last, inserted, insert_failed, threads, agent>>

binding == <<table_name, table_sql_schema, semantic_search_field, unique_id_field>>

\* no call is under way: the caller has taken the outcome of the latest one
Idle == [op |-> "idle"]

\* no ChatAgent has been constructed
NoAgent == [name |-> None]

\* no thread is inside a call
NoThreads == [ins |-> [pc |-> "idle"], st |-> [pc |-> "idle"], hq |-> [pc |-> "idle"]]

\* __init__: no table bound, no collection selected
Init ==
    /\ table_name = None
    /\ table_sql_schema = NoneSchema
    /\ semantic_search_field = None
    /\ unique_id_field = None
    /\ collection = None
    /\ sql = <<>>
    /\ vec = <<>>
    /\ uuid_count = 0
    /\ last = Idle
    /\ inserted = {}
    /\ insert_failed = FALSE
    /\ threads = NoThreads
    /\ agent = NoAgent

\* ---------------------------------------------------------------- insert
\* ValidityError looking at the first row only
ValidityErrorFirstRow(schema, data) ==
    IF data = <<>> THEN ""
    ELSE IF schema = NoneSchema THEN "TypeError"
    ELSE IF ~(DOMAIN data[1] \subseteq DOMAIN schema) THEN "ValueError"
    ELSE ""

\* check_validity: the exception the key check raises, "" when it passes
ValidityError(schema, data) ==
    IF data = <<>> THEN ""
    ELSE IF schema = NoneSchema THEN "TypeError"
    ELSE IF \E i \in 1..Len(data) : ~(DOMAIN data[i] \subseteq DOMAIN schema)
    THEN "ValueError"
    ELSE ""

\* does any entry lack the identity field or hold None in it
LacksId(data, uid) ==
    \E i \in 1..Len(data) : uid \notin DOMAIN data[i] \/ data[i][uid] = NullValue

\* AssignIds with the returned list filled back to front
AssignIdsReversed(data, uid, count) ==
    LET n == Len(data)
    IN IF LacksId(data, uid)
       THEN [data |-> [i \in 1..n |-> SetKey(data[i], uid, uuid4(count + i))],
             unique_ids |-> [i \in 1..n |-> uuid4(count + (n + 1 - i))],
             count |-> count + n]
       ELSE [data |-> data,
             unique_ids |-> [i \in 1..n |-> data[n + 1 - i][uid]],
             count |-> count]

\* the identities the call works with, and the caller's rows once they are set
AssignIds(data, uid, count) ==
    IF LacksId(data, uid)
    THEN [data |-> [i \in 1..Len(data) |-> SetKey(data[i], uid, uuid4(count + i))],
          unique_ids |-> [i \in 1..Len(data) |-> uuid4(count + i)],
          count |-> count + Len(data)]
    ELSE [data |-> data,
          unique_ids |-> [i \in 1..Len(data) |-> data[i][uid]],
          count |-> count]

\* fields_were_generated(): the key sets differ (dict views compare as sets)
fields_were_generated(schema, data) == DOMAIN schema # DOMAIN data[1]

\* s.replace(",", "")
StripCommas(s) == SelectSeq(s, LAMBDA c : c # ",")

\* the literals of the IN list the code writes from tuple(unique_ids): for
\* one identity "('x',)" loses every comma, those inside x too
IdsLiteral(unique_ids) ==
    IF Len(unique_ids) = 1 THEN <<StripCommas(unique_ids[1])>> ELSE unique_ids

\* the SELECT that reads the rows back
RereadQuery(name, uid, unique_ids) ==
    [select |-> "*", from |-> name,
     where |-> [kind |-> "in_list", col |-> uid, list |-> IdsLiteral(unique_ids)]]

\* the loop that builds texts, metadatas and text_ids from data
VectorBatch(data, sem, uid, count) ==
    LET n == Len(data)
        lacks(i) == uid \notin DOMAIN data[i] \/ data[i][uid] = NullValue
        nth(i) == Cardinality({j \in 1..i : lacks(j)})
        d_copy(i) == IF lacks(i) THEN SetKey(data[i], uid, uuid4(count + nth(i)))
                     ELSE data[i]
        withId == SortedSeq({i \in 1..n : uid \in DOMAIN data[i]})
        text_ids == [k \in 1..Len(withId) |-> data[withId[k]][uid]]
    IN IF \E i \in 1..n : sem \notin DOMAIN data[i]
       THEN [error |-> "KeyError", texts |-> <<>>, metadatas |-> <<>>,
             text_ids |-> NoIds, count |-> count]
       ELSE [error |-> "",
             texts |-> [i \in 1..n |-> data[i][sem]],
             metadatas |-> [i \in 1..n |-> DelKey(d_copy(i), sem)],
             text_ids |-> IF text_ids = <<>> THEN NoIds ELSE SomeIds(text_ids),
             count |-> count + nth(n)]

\* An insert call is followed through its steps in a record:
\*   error      the exception that ended the call, "" while it runs
\*   failed     the store call that raised, "" when none did
\*   data       the caller's list of rows (id assignment writes into them)
\*   rows       what the local name data holds (the re-read rows, once read)
\*   unique_ids, count (uuid4 values used), sql, vec
\*   calls      the store calls made so far, batch the arguments of batch_insert
Raise(c, err, call) == [c EXCEPT !.error = err, !.failed = call]

\* lines 150-153
CheckValidity(data, check_validity) ==
    LET c == [error |-> "", failed |-> "", data |-> data, rows |-> data,
              unique_ids |-> <<>>, count |-> uuid_count, sql |-> sql, vec |-> vec,
              calls |-> <<>>, batch |-> <<>>]
        err == IF check_validity THEN ValidityError(table_sql_schema, data) ELSE ""
    IN IF err # "" THEN Raise(c, err, "") ELSE c

\* lines 156-166
GenerateIds(c) ==
    LET a == AssignIds(c.data, unique_id_field, c.count)
    IN IF c.error # "" THEN c
       ELSE [c EXCEPT !.data = a.data, !.rows = a.data, !.unique_ids = a.unique_ids,
                      !.count = a.count]

\* line 168; fault names the store call that raises in this run
WriteRelational(c, fault) ==
    LET w == insert_data(c.sql, table_name, c.data)
        called == [c EXCEPT !.calls = @ \o <<"insert_data">>]
    IN IF c.error # "" THEN c
       ELSE IF fault = "insert_data" \/ ~w.ok THEN Raise(called, "StoreError", "insert_data")
       ELSE [called EXCEPT !.sql = w.sql]

\* lines 170-183
RereadRows(c, fault) ==
    LET q == query_data(c.sql, RereadQuery(table_name, unique_id_field, c.unique_ids))
        called == [c EXCEPT !.calls = @ \o <<"query_data">>]
    IN IF c.error # "" THEN c
       ELSE IF table_sql_schema = NoneSchema THEN Raise(c, "AttributeError", "")
       ELSE IF c.data = <<>> THEN Raise(c, "IndexError", "")
       ELSE IF ~fields_were_generated(table_sql_schema, c.data) THEN c
       ELSE IF fault = "query_data" \/ ~q.ok THEN Raise(called, "StoreError", "query_data")
       ELSE [called EXCEPT !.rows = q.rows]

\* BatchStep that deletes the call's rows again when the vector write fails
BatchStepRollback(c, fault, onDup) ==
    LET b == VectorBatch(c.rows, semantic_search_field, unique_id_field, c.count)
        v == batch_insert(c.vec, collection, b.texts, b.metadatas, b.text_ids, onDup, b.count)
        called == [c EXCEPT !.calls = @ \o <<"batch_insert">>, !.count = b.count,
                            !.batch = <<[texts |-> b.texts, metadatas |-> b.metadatas,
                                         text_ids |-> b.text_ids]>>]
    IN IF b.error # "" THEN Raise(c, b.error, "")
       ELSE IF fault = "batch_insert" \/ ~v.ok
            THEN Raise([called EXCEPT !.sql = sql], "StoreError", "batch_insert")
       ELSE [called EXCEPT !.vec = v.vec]

\* lines 185-207; onDup: how the vector store takes an identity it holds
BatchStep(c, fault, onDup) ==
    LET b == VectorBatch(c.rows, semantic_search_field, unique_id_field, c.count)
        v == batch_insert(c.vec, collection, b.texts, b.metadatas, b.text_ids, onDup, b.count)
        called == [c EXCEPT !.calls = @ \o <<"batch_insert">>, !.count = b.count,
                            !.batch = <<[texts |-> b.texts, metadatas |-> b.metadatas,
                                         text_ids |-> b.text_ids]>>]
    IN IF b.error # "" THEN Raise(c, b.error, "")
       ELSE IF fault = "batch_insert" \/ ~v.ok THEN Raise(called, "StoreError", "batch_insert")
       ELSE [called EXCEPT !.vec = v.vec]

\* WriteSemantic that goes on to the vector write after a failed relational write
WriteSemanticAnyway(c, fault, onDup) ==
    IF c.error # "" /\ c.failed # "insert_data" THEN c ELSE BatchStep(c, fault, onDup)

\* an exception raised at lines 150-183 ends the call before lines 185-207
WriteSemantic(c, fault, onDup) ==
    IF c.error # "" THEN c ELSE BatchStep(c, fault, onDup)

\* what one insert(data, check_validity) call does (a fault on a store call
\* the run never reaches makes no difference to it)
InsertRun(data, check_validity, fault, onDup) ==
    WriteSemantic(
        RereadRows(
            WriteRelational(GenerateIds(CheckValidity(data, check_validity)), fault),
            fault),
        fault, onDup)

\* ---------------------------------------------------------------- inputs
Absent == <<"absent">>      \* marks a key the caller's row does not have

\* a caller's row: the identity (absent, None or a string), the text, the
\* remaining columns all given or all left out, and possibly a key that is
\* no column
InputRow(i, t, full, extra) ==
    LET r0 == [text |-> t]
        r1 == IF i = Absent THEN r0 ELSE SetKey(r0, "id", i)
        r2 == IF full THEN SetKey(SetKey(r1, "created_at", C0), "doc_name", DocX) ELSE r1
    IN IF extra THEN SetKey(r2, "bogus", Zed) ELSE r2

\* one row of each shape: no identity, a null identity, an identity and
\* every column, an identity with a comma and the text alone, an unknown key
InputRows ==
    {InputRow(Absent, T1, FALSE, FALSE),
     InputRow(NullValue, T2, TRUE, FALSE),
     InputRow(IdA, T1, TRUE, FALSE),
     InputRow(IdAComma, T2, FALSE, FALSE),
     InputRow(IdA, T2, FALSE, TRUE)}

Faults == {"none", "insert_data", "query_data", "batch_insert"}
DupPolicies == {"error", "ignore", "upsert"}

\* ---------------------------------------------------------------- actions
RowsHeld == IF table_name \in DOMAIN sql THEN Len(sql[table_name].rows) ELSE 0

insert(data, check_validity, fault, onDup) ==
    /\ last = Idle
    /\ RowsHeld + Len(data) <= MaxRows
    /\ uuid_count + Len(data) <= MaxUuids
    /\ \E r \in {InsertRun(data, check_validity, fault, onDup)} :
          /\ sql' = r.sql
          /\ vec' = r.vec
          /\ uuid_count' = r.count
          /\ last' = [op |-> "insert", data |-> data, check_validity |-> check_validity,
                      fault |-> IF r.failed = fault THEN fault ELSE "none", error |-> r.error, failed |-> r.failed,
                      ret |-> IF r.error = "" THEN r.unique_ids ELSE <<>>,
                      data_after |-> r.data, calls |-> r.calls, batch |-> r.batch]
          /\ inserted' = IF r.error = ""
                         THEN inserted \cup {[id |-> r.unique_ids[i], row |-> data[i]] :
                                                i \in 1..Len(data)}
                         ELSE inserted
          /\ insert_failed' = (insert_failed \/ r.error # "")
    /\ UNCHANGED <<binding, collection, threads, agent>>

\* ------------------------------------------------- chunker (text_splitter)
\* a text is the sequence of its sentences; a segment is the run of
\* sentences it holds
Sentences == <<"One.", "Two.", "Three.", "Four.">>

Texts == {SubSeq(Sentences, 1, k) : k \in 0..MaxSentences}

\* text_splitter(text, max_sentences_per_chunk): consecutive sentences in
\* groups of at most n, the last group possibly shorter; none for no text
text_splitter(text, n) ==
    [k \in 1..((Len(text) + n - 1) \div n) |->
        SubSeq(text, (k - 1) * n + 1, Min(k * n, Len(text)))]

NoMetadata == [None |-> NullValue]      \* metadata = None, the default

\* chunk_text_for_insert with one dict shared by the rows and no copy made:
\* every row ends up holding the last segment
chunk_text_for_insertShared(text, metadata, n) ==
    LET chunks == text_splitter(text, n)
    IN IF chunks # <<>> /\ metadata = NoMetadata
       THEN [error |-> "TypeError", chunks |-> chunks, rows |-> <<>>]
       ELSE [error |-> "", chunks |-> chunks,
             rows |-> [i \in 1..Len(chunks) |->
                         SetKey(metadata, semantic_search_field, chunks[Len(chunks)])]]

\* chunk_text_for_insert: one row per segment, eval(repr(metadata)) with
\* the segment under the semantic field; None takes no item assignment
chunk_text_for_insert(text, metadata, n) ==
    LET chunks == text_splitter(text, n)
    IN IF chunks # <<>> /\ metadata = NoMetadata
       THEN [error |-> "TypeError", chunks |-> chunks, rows |-> <<>>]
       ELSE [error |-> "", chunks |-> chunks,
             rows |-> [i \in 1..Len(chunks) |->
                         SetKey(metadata, semantic_search_field, chunks[i])]]

\* what one insert_text_in_chunks call does: the rows are built, then
\* handed to insert
ChunksRun(text, metadata, n, check_validity, fault, onDup) ==
    LET b == chunk_text_for_insert(text, metadata, n)
    IN IF b.error # "" THEN Raise(CheckValidity(<<>>, FALSE), b.error, "")
       ELSE InsertRun(b.rows, check_validity, fault, onDup)

insert_text_in_chunks(text, metadata, n, check_validity, fault, onDup) ==
    /\ last = Idle
    /\ RowsHeld + Len(text_splitter(text, n)) <= MaxRows
    /\ uuid_count + Len(text_splitter(text, n)) <= MaxUuids
    /\ \E b \in {chunk_text_for_insert(text, metadata, n)},
          r \in {ChunksRun(text, metadata, n, check_validity, fault, onDup)} :
          /\ sql' = r.sql
          /\ vec' = r.vec
          /\ uuid_count' = r.count
          /\ last' = [op |-> "insert_text_in_chunks", text |-> text, metadata |-> metadata,
                      max_sentences_per_chunk |-> n, check_validity |-> check_validity,
                      fault |-> IF r.failed = fault THEN fault ELSE "none",
                      error |-> r.error, failed |-> r.failed,
                      ret |-> IF r.error = "" THEN r.unique_ids ELSE <<>>,
                      chunks |-> b.chunks, data |-> b.rows, data_after |-> r.data,
                      calls |-> r.calls, batch |-> r.batch]
          /\ inserted' = IF r.error = ""
                         THEN inserted \cup {[id |-> r.unique_ids[i], row |-> b.rows[i]] :
                                                i \in 1..Len(b.rows)}
                         ELSE inserted
          /\ insert_failed' = (insert_failed \/ r.error # "")
    /\ UNCHANGED <<binding, collection, threads, agent>>

\* SetTableRun with the table created before the field names are looked up
SetTableRunCreateFirst(name, sem, uid, schema, fault) ==
    LET keep(err, s, calls) ==
            [error |-> err, sql |-> s, vec |-> vec, collection |-> collection,
             table_name |-> table_name, table_sql_schema |-> table_sql_schema,
             semantic_search_field |-> semantic_search_field,
             unique_id_field |-> unique_id_field, calls |-> calls]
        c == create_table(sql, name, schema)
    IN IF schema = NoneSchema THEN keep("TypeError", sql, <<>>)
       ELSE IF fault = "create_table" \/ ~c.ok
            THEN keep("StoreError", sql, <<"create_table">>)
       ELSE IF sem \notin DOMAIN schema THEN keep("ValueError", c.sql, <<"create_table">>)
       ELSE IF uid \notin DOMAIN schema THEN keep("ValueError", c.sql, <<"create_table">>)
       ELSE IF fault = "set_collection"
            THEN keep("StoreError", c.sql, <<"create_table", "set_collection">>)
       ELSE [error |-> "", sql |-> c.sql, vec |-> set_collection(vec, name),
             collection |-> name, table_name |-> name,
             table_sql_schema |-> schema,
             semantic_search_field |-> sem, unique_id_field |-> uid,
             calls |-> <<"create_table", "set_collection">>]

\* SetTableRun with self.table_name assigned before the collection is set
SetTableRunNameFirst(name, sem, uid, schema, fault) ==
    LET keep(err, s, tn, calls) ==
            [error |-> err, sql |-> s, vec |-> vec, collection |-> collection,
             table_name |-> tn, table_sql_schema |-> table_sql_schema,
             semantic_search_field |-> semantic_search_field,
             unique_id_field |-> unique_id_field, calls |-> calls]
        c == create_table(sql, name, schema)
    IN IF schema = NoneSchema THEN keep("TypeError", sql, table_name, <<>>)
       ELSE IF sem \notin DOMAIN schema THEN keep("ValueError", sql, table_name, <<>>)
       ELSE IF uid \notin DOMAIN schema THEN keep("ValueError", sql, table_name, <<>>)
       ELSE IF fault = "create_table" \/ ~c.ok
            THEN keep("StoreError", sql, table_name, <<"create_table">>)
       ELSE IF fault = "set_collection"
            THEN keep("StoreError", c.sql, name, <<"create_table", "set_collection">>)
       ELSE [error |-> "", sql |-> c.sql, vec |-> set_collection(vec, name),
             collection |-> name, table_name |-> name,
             table_sql_schema |-> schema,
             semantic_search_field |-> sem, unique_id_field |-> uid,
             calls |-> <<"create_table", "set_collection">>]

\* what one set_table(table_name, semantic_search_field, unique_id_field,
\* table_sql_schema) call does; fault names the store call that raises
SetTableRun(name, sem, uid, schema, fault) ==
    LET keep(err, s, calls) ==
            [error |-> err, sql |-> s, vec |-> vec, collection |-> collection,
             table_name |-> table_name, table_sql_schema |-> table_sql_schema,
             semantic_search_field |-> semantic_search_field,
             unique_id_field |-> unique_id_field, calls |-> calls]
        c == create_table(sql, name, schema)
        g == get_schema(c.sql, name)
    IN IF schema = NoneSchema THEN keep("TypeError", sql, <<>>)
       ELSE IF sem \notin DOMAIN schema THEN keep("ValueError", sql, <<>>)
       ELSE IF uid \notin DOMAIN schema THEN keep("ValueError", sql, <<>>)
       ELSE IF fault = "create_table" \/ ~c.ok
            THEN keep("StoreError", sql, <<"create_table">>)
       ELSE IF fault = "set_collection"
            THEN keep("StoreError", c.sql, <<"create_table", "set_collection">>)
       ELSE [error |-> "", sql |-> c.sql, vec |-> set_collection(vec, name),
             collection |-> name, table_name |-> name,
             table_sql_schema |-> IF schema # NoneSchema THEN schema ELSE g.schema,
             semantic_search_field |-> sem, unique_id_field |-> uid,
             calls |-> <<"create_table", "set_collection">>]

set_table(name, sem, uid, schema, fault) ==
    \E r \in {SetTableRun(name, sem, uid, schema, fault)} :
       /\ last = Idle
       /\ sql' = r.sql
       /\ vec' = r.vec
       /\ collection' = r.collection
       /\ table_name' = r.table_name
       /\ table_sql_schema' = r.table_sql_schema
       /\ semantic_search_field' = r.semantic_search_field
       /\ unique_id_field' = r.unique_id_field
       /\ last' = [op |-> "set_table", table_name |-> name, semantic_search_field |-> sem,
                   unique_id_field |-> uid, table_sql_schema |-> schema,
                   fault |-> IF r.error = "StoreError" THEN fault ELSE "none",
                   error |-> r.error, calls |-> r.calls]
       /\ UNCHANGED <<uuid_count, inserted, insert_failed, threads, agent>>

\* what one get(unique_id) call does: scalar tells a single identity from a
\* list or tuple of them (ids holds the one identity, or the members)
GetRun(scalar, ids, fault) ==
    LET where == IF scalar
                 THEN [kind |-> "eq_param", col |-> unique_id_field, param |-> ids[1]]
                 ELSE [kind |-> "in_param", col |-> unique_id_field, params |-> ids]
        q == query_data(sql, [select |-> "*", from |-> table_name, where |-> where])
    IN IF table_name = None
       THEN [error |-> "TypeError", failed |-> "", ret |-> <<>>, calls |-> <<>>]
       ELSE IF fault = "query_data" \/ ~q.ok
            THEN [error |-> "StoreError", failed |-> "query_data", ret |-> <<>>,
                  calls |-> <<"query_data">>]
       ELSE [error |-> "", failed |-> "", ret |-> q.rows, calls |-> <<"query_data">>]

get(scalar, ids, fault) ==
    /\ last = Idle
    /\ scalar => Len(ids) = 1
    /\ \E r \in {GetRun(scalar, ids, fault)} :
          last' = [op |-> "get", scalar |-> scalar, ids |-> ids, fault |-> fault,
                   error |-> r.error, failed |-> r.failed, ret |-> r.ret, calls |-> r.calls]
    /\ UNCHANGED <<binding, collection, sql, vec, uuid_count, inserted, insert_failed, threads, agent>>

\* WhereQuery without its WHERE clause
WhereQueryUnfiltered(name, uid, sql_where) ==
    [select |-> uid, from |-> name, where |-> [kind |-> "all", col |-> uid]]

\* the SELECT of hybrid_query: the identities of the rows sql_where keeps
WhereQuery(name, uid, sql_where) ==
    [select |-> uid, from |-> name, where |-> sql_where]

\* sql_where left at its default None
NoWhere == [kind |-> "none", col |-> None, val |-> NullValue]

\* the outcomes one hybrid_query(query_text, top_k, sql_where) call can have
HybridRuns(top_k, sql_where, fault) ==
    LET q == query_data(sql, WhereQuery(table_name, unique_id_field, sql_where))
        ids_list == [i \in 1..Len(q.rows) |-> q.rows[i][1]]
        c1 == <<"query_data">>
        c2 == <<"query_data", "query">>
    IN IF sql_where = NoWhere THEN {[error |-> "TypeError", ret |-> <<>>, calls |-> <<>>, ids_list |-> <<>>]}
       ELSE IF fault = "query_data" \/ ~q.ok
            THEN {[error |-> "StoreError", ret |-> <<>>, calls |-> c1, ids_list |-> <<>>]}
       ELSE IF fault = "query" \/ collection \notin DOMAIN vec
            THEN {[error |-> "StoreError", ret |-> <<>>, calls |-> c2, ids_list |-> ids_list]}
       ELSE {[error |-> "", ret |-> m, calls |-> c2, ids_list |-> ids_list] :
                m \in VectorAnswers(vec[collection], top_k, unique_id_field, ids_list)}

hybrid_query(top_k, sql_where, fault) ==
    /\ last = Idle
    /\ \E r \in HybridRuns(top_k, sql_where, fault) :
          last' = [op |-> "hybrid_query", top_k |-> top_k, sql_where |-> sql_where, fault |-> fault, error |-> r.error,
                   ret |-> r.ret, calls |-> r.calls, ids_list |-> r.ids_list]
    /\ UNCHANGED <<binding, collection, sql, vec, uuid_count, inserted, insert_failed, threads, agent>>

\* calls are issued one at a time: the caller takes the outcome of a call
\* and goes on to the next one
next_call ==
    /\ last # Idle
    /\ last' = Idle
    /\ UNCHANGED <<binding, collection, sql, vec, uuid_count, inserted, insert_failed, threads, agent>>

\* the dup policies that can make a difference to a batch
DupChoices ==
    IF collection \in DOMAIN vec /\ vec[collection] # <<>> THEN DupPolicies ELSE {"error"}

\* the predicates callers pass: one column compared with one value
Predicates == {[kind |-> "pred", col |-> "doc_name", val |-> v] : v \in {DocX, Zed}}

\* the metadata callers pass with a text: none, a tag, a tag with an
\* identity, the semantic field
Metadatas ==
    {NoMetadata, [doc_name |-> DocX], [doc_name |-> DocX, id |-> IdA], [text |-> T1]}

\* the identities a caller may ask get for: two it may have supplied and
\* the first one an insert may have generated
KnownIds == {IdA, IdAComma, uuid4(1)}

Next ==
    \/ \E name \in TableNames, sem \in {"text", "body"}, uid \in {"id", "key"},
          schema \in {documents_table_schema, NoneSchema},
          fault \in {"none", "create_table", "set_collection"} :
            set_table(name, sem, uid, schema, fault)
    \/ \E data \in SeqsUpTo(InputRows, MaxBatch), check_validity \in BOOLEAN,
          fault \in Faults, onDup \in DupChoices :
            insert(data, check_validity, fault, onDup)
    \/ \E id \in KnownIds, fault \in {"none", "query_data"} :
            get(TRUE, <<id>>, fault)
    \/ \E ids \in SeqsUpTo(KnownIds, MaxGetList) :
            get(FALSE, ids, "none")
    \/ \E top_k \in {1, 3}, sql_where \in Predicates \cup {NoWhere},
          fault \in {"none", "query_data", "query"} :
            hybrid_query(top_k, sql_where, fault)
    \/ next_call

Spec == Init /\ [][Next]_vars

\* the instance as a store of chunked texts: rows come in through
\* insert_text_in_chunks only
NextChunks ==
    \/ \E name \in TableNames, sem \in {"text", "body"}, uid \in {"id", "key"},
          schema \in {documents_table_schema, NoneSchema},
          fault \in {"none", "create_table", "set_collection"} :
            set_table(name, sem, uid, schema, fault)
    \/ \E text \in Texts, metadata \in Metadatas, n \in {1, 2}, check_validity \in BOOLEAN,
          fault \in Faults, onDup \in DupChoices :
            insert_text_in_chunks(text, metadata, n, check_validity, fault, onDup)
    \/ \E id \in KnownIds, fault \in {"none", "query_data"} :
            get(TRUE, <<id>>, fault)
    \/ \E top_k \in {1, 3}, sql_where \in Predicates \cup {NoWhere},
          fault \in {"none", "query_data", "query"} :
            hybrid_query(top_k, sql_where, fault)
    \/ next_call

SpecChunks == Init /\ [][NextChunks]_vars

\* ------------------------------------------------------ overlapping calls
\* Threads that share the instance run set_table, insert and hybrid_query
\* with no lock: a call is a run of steps, one per statement that reads or
\* writes the attributes or calls a store, and the steps of different
\* calls interleave.

\* the schema ChatAgent binds for its conversations
conversation_table_schema ==
    [id |-> "TEXT PRIMARY KEY",
     conversation |-> "TEXT NOT NULL",
     created_at |-> "DATETIME DEFAULT CURRENT_TIMESTAMP"]

Binding(name, sem, uid, schema) ==
    [table_name |-> name, table_sql_schema |-> schema, semantic_search_field |-> sem,
     unique_id_field |-> uid, collection |-> name]

\* the two bindings ChatAgent uses
Bindings ==
    {Binding("documents", "text", "id", documents_table_schema),
     Binding("conversations", "conversation", "id", conversation_table_schema)}

\* what the attributes and the active collection hold now
Current ==
    [table_name |-> table_name, table_sql_schema |-> table_sql_schema,
     semantic_search_field |-> semantic_search_field,
     unique_id_field |-> unique_id_field, collection |-> collection]

\* history of a call: for each attribute the values the call has read
NothingSeen == [f \in DOMAIN Current |-> {}]
Saw(seen, fields) ==
    [f \in DOMAIN seen |-> IF f \in fields THEN seen[f] \cup {Current[f]} ELSE seen[f]]

\* the stores are read where a step runs, not where the call began
Fresh(c) == [c EXCEPT !.sql = sql, !.vec = vec, !.count = uuid_count]
Kept(c) == [c EXCEPT !.sql = <<>>, !.vec = <<>>]

\* the instance after db.set_table("documents", "text", "id", documents_table_schema)
InitBound ==
    /\ table_name = "documents"
    /\ table_sql_schema = documents_table_schema
    /\ semantic_search_field = "text"
    /\ unique_id_field = "id"
    /\ collection = "documents"
    /\ sql = create_table(<<>>, "documents", documents_table_schema).sql
    /\ vec = set_collection(<<>>, "documents")
    /\ uuid_count = 0
    /\ last = Idle
    /\ inserted = {}
    /\ insert_failed = FALSE
    /\ threads = NoThreads
    /\ agent = NoAgent

\* --- set_table, lines 60-73
st_start(b) ==
    /\ threads.st.pc = "idle"
    /\ threads' = [threads EXCEPT !.st = [pc |-> "create", to |-> b]]
    /\ UNCHANGED <<binding, collection, sql, vec, uuid_count, last, inserted, insert_failed, agent>>

\* line 65
st_create ==
    /\ threads.st.pc = "create"
    /\ \E c \in {create_table(sql, threads.st.to.table_name, threads.st.to.table_sql_schema)} :
          /\ sql' = c.sql
          /\ threads' = [threads EXCEPT !.st.pc = IF c.ok THEN "collect" ELSE "done"]
    /\ UNCHANGED <<binding, collection, vec, uuid_count, last, inserted, insert_failed, agent>>

\* line 66
st_collect ==
    /\ threads.st.pc = "collect"
    /\ vec' = set_collection(vec, threads.st.to.table_name)
    /\ collection' = threads.st.to.table_name
    /\ threads' = [threads EXCEPT !.st.pc = "name"]
    /\ UNCHANGED <<binding, sql, uuid_count, last, inserted, insert_failed, agent>>

\* line 67
st_name ==
    /\ threads.st.pc = "name"
    /\ table_name' = threads.st.to.table_name
    /\ threads' = [threads EXCEPT !.st.pc = "schema"]
    /\ UNCHANGED <<table_sql_schema, semantic_search_field, unique_id_field,
                   collection, sql, vec, uuid_count, last, inserted, insert_failed, agent>>

\* lines 68-69
st_schema ==
    /\ threads.st.pc = "schema"
    /\ table_sql_schema' = threads.st.to.table_sql_schema
    /\ threads' = [threads EXCEPT !.st.pc = "sem"]
    /\ UNCHANGED <<table_name, semantic_search_field, unique_id_field,
                   collection, sql, vec, uuid_count, last, inserted, insert_failed, agent>>

\* line 72
st_sem ==
    /\ threads.st.pc = "sem"
    /\ semantic_search_field' = threads.st.to.semantic_search_field
    /\ threads' = [threads EXCEPT !.st.pc = "uid"]
    /\ UNCHANGED <<table_name, table_sql_schema, unique_id_field,
                   collection, sql, vec, uuid_count, last, inserted, insert_failed, agent>>

\* line 73
st_uid ==
    /\ threads.st.pc = "uid"
    /\ unique_id_field' = threads.st.to.unique_id_field
    /\ threads' = [threads EXCEPT !.st.pc = "done"]
    /\ UNCHANGED <<table_name, table_sql_schema, semantic_search_field,
                   collection, sql, vec, uuid_count, last, inserted, insert_failed, agent>>

\* --- insert, lines 150-209
ins_start(data) ==
    /\ threads.ins.pc = "idle"
    /\ RowsHeld + Len(data) <= MaxRows
    /\ uuid_count + Len(data) <= MaxUuids
    /\ threads' = [threads EXCEPT !.ins = [pc |-> "ids", c |-> Kept(CheckValidity(data, FALSE)),
                                           seen |-> NothingSeen]]
    /\ UNCHANGED <<binding, collection, sql, vec, uuid_count, last, inserted, insert_failed, agent>>

\* lines 156-166
ins_ids ==
    /\ threads.ins.pc = "ids"
    /\ \E r \in {GenerateIds(Fresh(threads.ins.c))} :
          /\ uuid_count' = r.count
          /\ threads' = [threads EXCEPT !.ins.pc = "write", !.ins.c = Kept(r),
                                        !.ins.seen = Saw(@, {"unique_id_field"})]
    /\ UNCHANGED <<binding, collection, sql, vec, last, inserted, insert_failed, agent>>

\* line 168
ins_write ==
    /\ threads.ins.pc = "write"
    /\ \E r \in {WriteRelational(Fresh(threads.ins.c), "none")} :
          /\ sql' = r.sql
          /\ threads' = [threads EXCEPT !.ins.pc = IF r.error = "" THEN "reread" ELSE "done",
                                        !.ins.c = Kept(r),
                                        !.ins.seen = Saw(@, {"table_name"})]
    /\ UNCHANGED <<binding, collection, vec, uuid_count, last, inserted, insert_failed, agent>>

\* lines 170-183
ins_reread ==
    /\ threads.ins.pc = "reread"
    /\ \E r \in {RereadRows(Fresh(threads.ins.c), "none")} :
          threads' = [threads EXCEPT
                        !.ins.pc = IF r.error = "" THEN "batch" ELSE "done",
                        !.ins.c = Kept(r),
                        !.ins.seen = Saw(@, IF r.calls # threads.ins.c.calls
                                            THEN {"table_sql_schema", "table_name",
                                                  "unique_id_field"}
                                            ELSE {"table_sql_schema"})]
    /\ UNCHANGED <<binding, collection, sql, vec, uuid_count, last, inserted, insert_failed, agent>>

\* lines 185-209
ins_batch(onDup) ==
    /\ threads.ins.pc = "batch"
    /\ \E r \in {WriteSemantic(Fresh(threads.ins.c), "none", onDup)} :
          /\ vec' = r.vec
          /\ uuid_count' = r.count
          /\ threads' = [threads EXCEPT
                           !.ins.pc = "done",
                           !.ins.c = Kept(r),
                           !.ins.seen = Saw(@, IF r.calls # threads.ins.c.calls
                                               THEN {"unique_id_field", "semantic_search_field",
                                                     "collection"}
                                               ELSE {"unique_id_field", "semantic_search_field"})]
    /\ UNCHANGED <<binding, collection, sql, last, inserted, insert_failed, agent>>

\* --- hybrid_query, lines 252-264
hq_start(top_k, sql_where) ==
    /\ threads.hq.pc = "idle"
    /\ threads' = [threads EXCEPT !.hq = [pc |-> "select", top_k |-> top_k,
                                          sql_where |-> sql_where, ids_list |-> <<>>,
                                          error |-> "", ret |-> <<>>, calls |-> <<>>,
                                          seen |-> NothingSeen]]
    /\ UNCHANGED <<binding, collection, sql, vec, uuid_count, last, inserted, insert_failed, agent>>

\* lines 252-256
hq_select ==
    /\ threads.hq.pc = "select"
    /\ \E q \in {query_data(sql, WhereQuery(table_name, unique_id_field, threads.hq.sql_where))} :
          threads' = [threads EXCEPT
                        !.hq.pc = IF q.ok THEN "query" ELSE "done",
                        !.hq.error = IF q.ok THEN "" ELSE "StoreError",
                        !.hq.calls = @ \o <<"query_data">>,
                        !.hq.ids_list = [i \in 1..Len(q.rows) |-> q.rows[i][1]],
                        !.hq.seen = Saw(@, {"unique_id_field", "table_name"})]
    /\ UNCHANGED <<binding, collection, sql, vec, uuid_count, last, inserted, insert_failed, agent>>

\* hq_query with the where filter left out of the vector query
hq_queryUnfiltered ==
    /\ threads.hq.pc = "query"
    /\ \E m \in VectorAnswers(vec[collection], threads.hq.top_k, unique_id_field,
                               [i \in 1..Len(vec[collection]) |-> vec[collection][i].id]) :
          threads' = [threads EXCEPT
                        !.hq.pc = "done",
                        !.hq.ret = m,
                        !.hq.calls = @ \o <<"query">>,
                        !.hq.seen = Saw(@, {"unique_id_field", "collection"})]
    /\ UNCHANGED <<binding, collection, sql, vec, uuid_count, last, inserted, insert_failed, agent>>

\* lines 258-264
hq_query ==
    /\ threads.hq.pc = "query"
    /\ \E m \in VectorAnswers(vec[collection], threads.hq.top_k, unique_id_field,
                               threads.hq.ids_list) :
          threads' = [threads EXCEPT
                        !.hq.pc = "done",
                        !.hq.ret = m,
                        !.hq.calls = @ \o <<"query">>,
                        !.hq.seen = Saw(@, {"unique_id_field", "collection"})]
    /\ UNCHANGED <<binding, collection, sql, vec, uuid_count, last, inserted, insert_failed, agent>>

\* the rows the overlapping inserts are given: one for each table, one
\* whose columns are filled in by the store
RowsConc ==
    {<<InputRow(IdA, T1, TRUE, FALSE)>>, <<InputRow(Absent, T1, FALSE, FALSE)>>,
     <<[conversation |-> T2, created_at |-> C0]>>}

NextConc ==
    \/ \E b \in Bindings : st_start(b)
    \/ st_create
    \/ st_collect
    \/ st_name
    \/ st_schema
    \/ st_sem
    \/ st_uid
    \/ \E data \in RowsConc : ins_start(data)
    \/ ins_ids
    \/ ins_write
    \/ ins_reread
    \/ \E onDup \in DupChoices : ins_batch(onDup)
    \/ \E sql_where \in {[kind |-> "pred", col |-> "id", val |-> IdA]} : hq_start(1, sql_where)
    \/ hq_select
    \/ hq_query

\* one set_table, one insert and one hybrid_query, overlapping at will, on
\* an instance bound to the documents table
SpecConc == InitBound /\ [][NextConc]_vars

\* -------------------------------------------------------------- ChatAgent
\* A ChatAgent keeps the history of one conversation and owns an instance
\* bound to the conversations table (its conversation_memory).  A content
\* is the sequence of its tokens, so enc.encode(content) has Len(content)
\* members.  The chat-completion client is outside the repository: a call
\* answers with some reply or raises.

TokenLimit == 4     \* token_limit of the agent

Entry(role, content) == [role |-> role, content |-> content]
NoEntry == [role |-> "None", content |-> <<>>]      \* None in a pair
NoDirective == <<>>                                 \* primary_directive = None

Directive == <<"be", "kind">>
UserMessages == {<<"hi">>, <<"tell", "me", "more">>}
Replies == {<<"ok">>}
Summaries == {<<"talked">>}

\* what client.chat.completions.create does: a reply, or an exception
LlmOutcomes ==
    {[ok |-> TRUE, content |-> r] : r \in Replies} \cup {[ok |-> FALSE, content |-> <<>>]}
SummaryOutcomes ==
    {[ok |-> TRUE, content |-> r] : r \in Summaries} \cup {[ok |-> FALSE, content |-> <<>>]}

\* count_tokens
RECURSIVE count_tokens(_)
count_tokens(messages) ==
    IF messages = <<>> THEN 0
    ELSE Len(Head(messages).content) + count_tokens(Tail(messages))

\* the loop of split_messages_into_pairs from entry i on
RECURSIVE PairsFrom(_, _, _, _, _)
PairsFrom(messages, i, temp_system_entry, temp_user_entry, pairs) ==
    IF i > Len(messages) THEN pairs
    ELSE LET entry == messages[i]
         IN IF entry.role = "system"
            THEN PairsFrom(messages, i + 1, entry, temp_user_entry, pairs)
            ELSE IF entry.role = "user"
            THEN PairsFrom(messages, i + 1, temp_system_entry, entry, pairs)
            ELSE IF entry.role = "assistant" /\ temp_user_entry # NoEntry
            THEN PairsFrom(messages, i + 1, NoEntry, NoEntry,
                           Append(pairs, <<temp_system_entry, temp_user_entry, entry>>))
            ELSE PairsFrom(messages, i + 1, temp_system_entry, temp_user_entry, pairs)

split_messages_into_pairs(messages) == PairsFrom(messages, 1, NoEntry, NoEntry, <<>>)

\* repr of a pair: the text stored as the conversation
ReprEntry(e) == IF e = NoEntry THEN <<"None">> ELSE <<e.role>> \o e.content
ReprPair(p) == <<"[">> \o ReprEntry(p[1]) \o ReprEntry(p[2]) \o ReprEntry(p[3]) \o <<"]">>

current_utc_timestamp == <<"utc">>

\* the rows save_current_conversation_to_memory hands to insert
ConversationRows(messages) ==
    LET pairs == split_messages_into_pairs(messages)
    IN [i \in 1..Len(pairs) |->
          [conversation |-> ReprPair(pairs[i]), created_at |-> current_utc_timestamp]]

\* side_message that appends the prompt to the history itself, no copy made
SideMessageRunAlias(prompt, use_context, llm) ==
    LET temp_messages == (IF use_context THEN agent.messages ELSE <<>>)
                            \o <<Entry("user", prompt)>>
    IN [error |-> IF llm.ok THEN "" ELSE "APIError",
        ret |-> llm.content,
        sent |-> temp_messages,
        messages |-> IF use_context THEN temp_messages ELSE agent.messages]

\* what one side_message(prompt, use_context) call does: sent is the list
\* given to the client, messages the history after the call
SideMessageRun(prompt, use_context, llm) ==
    LET temp_messages == (IF use_context THEN agent.messages ELSE <<>>)
                            \o <<Entry("user", prompt)>>
    IN [error |-> IF llm.ok THEN "" ELSE "APIError",
        ret |-> llm.content,
        sent |-> temp_messages,
        messages |-> agent.messages]

\* the prompt of summarize_current_conversation
SummaryPrompt(in_max_n_words) == <<"Summarize", "in", in_max_n_words, "words">>

\* the context message refresh_session leaves
SummaryContext(summary) == Entry("system", <<"previously:">> \o summary)

\* set_primary_directive(system_prompt) on a history; <<>> for None
WithDirective(messages, primary_directive, system_prompt) ==
    LET p == IF system_prompt = NoDirective THEN primary_directive ELSE system_prompt
    IN [messages |-> IF p # NoDirective THEN Append(messages, Entry("system", p))
                     ELSE messages,
        primary_directive |-> IF p # NoDirective THEN p ELSE primary_directive]

\* a send_message that needed no refresh starts from the state as it is
NoRefresh ==
    [error |-> "", failed |-> "", messages |-> agent.messages,
     primary_directive |-> agent.primary_directive,
     sql |-> sql, vec |-> vec, count |-> uuid_count,
     steps |-> <<>>, data |-> <<>>, ids |-> <<>>, summary |-> <<>>]

\* refresh_session, given what its summarize call (side) and its save call
\* (ins, an insert of rows) do.  steps lists what it got done, data the rows
\* it handed to insert, summary the text the client returned
RefreshAfter(side, rows, ins) ==
    LET cleared == WithDirective(<<>>, agent.primary_directive, NoDirective)
    IN IF agent.summary_size = None
       THEN [NoRefresh EXCEPT !.error = "TypeError"]
       ELSE IF side.error # ""
       THEN [NoRefresh EXCEPT !.error = side.error, !.messages = side.messages,
                              !.steps = <<"summarize">>]
       ELSE IF ins.error # ""
       THEN [NoRefresh EXCEPT !.error = ins.error, !.failed = ins.failed,
                              !.messages = side.messages,
                              !.sql = ins.sql, !.vec = ins.vec, !.count = ins.count,
                              !.steps = <<"summarize", "save">>, !.data = rows,
                              !.summary = side.ret]
       ELSE [NoRefresh EXCEPT !.messages = Append(cleared.messages, SummaryContext(side.ret)),
                              !.primary_directive = cleared.primary_directive,
                              !.sql = ins.sql, !.vec = ins.vec, !.count = ins.count,
                              !.steps = <<"summarize", "save", "clear", "directive", "context">>,
                              !.data = rows, !.ids = ins.unique_ids, !.summary = side.ret]

\* the save of refresh_session works on the history its summarize call left
RefreshSave(side, fault, onDup) ==
    RefreshAfter(side, ConversationRows(side.messages),
                 InsertRun(ConversationRows(side.messages), FALSE, fault, onDup))

\* what one refresh_session call does
RefreshRun(sumLlm, fault, onDup) ==
    RefreshSave(SideMessageRun(SummaryPrompt(agent.summary_size), TRUE, sumLlm), fault, onDup)

\* is the history plus the new message over the limit
OverLimit(user_message) ==
    count_tokens(agent.messages) + Len(user_message) > agent.token_limit

\* send_message from its append of the user message on, start being what
\* the refresh (or no refresh) left
SendAfter(start, user_message, llm) ==
    IF start.error # "" THEN [ret |-> <<>>] @@ start
    ELSE IF ~llm.ok
    THEN [ret |-> <<>>] @@
         [start EXCEPT !.error = "APIError",
                       !.messages = Append(@, Entry("user", user_message)),
                       !.steps = @ \o <<"user">>]
    ELSE [ret |-> llm.content] @@
         [start EXCEPT !.messages = @ \o <<Entry("user", user_message),
                                           Entry("assistant", llm.content)>>,
                       !.steps = @ \o <<"user", "assistant">>]

\* what one send_message(user_message) call does
SendRun(user_message, sumLlm, llm, fault, onDup) ==
    SendAfter(IF OverLimit(user_message) THEN RefreshRun(sumLlm, fault, onDup) ELSE NoRefresh,
              user_message, llm)

\* the rows an insert made by the agent has stored: history for inserted
Stored(error, ids, data) ==
    IF error = "" THEN {[id |-> ids[i], row |-> data[i]] : i \in 1..Len(ids)} ELSE {}

send_message(user_message, sumLlm, llm, fault, onDup) ==
    /\ last = Idle
    /\ OverLimit(user_message) =>
          /\ RowsHeld + Len(split_messages_into_pairs(agent.messages)) <= MaxRows
          /\ uuid_count + Len(split_messages_into_pairs(agent.messages)) <= MaxUuids
    /\ \E r \in {SendRun(user_message, sumLlm, llm, fault, onDup)} :
          /\ agent' = [agent EXCEPT !.messages = r.messages,
                                    !.primary_directive = r.primary_directive]
          /\ sql' = r.sql
          /\ vec' = r.vec
          /\ uuid_count' = r.count
          /\ last' = [op |-> "send_message", user_message |-> user_message,
                      over |-> OverLimit(user_message),
                      clean |-> /\ llm.ok
                                /\ OverLimit(user_message) => (sumLlm.ok /\ fault = "none"),
                      error |-> r.error, failed |-> r.failed, ret |-> r.ret,
                      steps |-> r.steps, data |-> r.data, summary |-> r.summary]
          /\ inserted' = inserted \cup Stored(r.error, r.ids, r.data)
          /\ insert_failed' = (insert_failed \/ (r.error # "" /\ r.steps = <<"summarize", "save">>))
    /\ UNCHANGED <<binding, collection, threads>>

side_message(prompt, use_context, llm) ==
    /\ last = Idle
    /\ \E r \in {SideMessageRun(prompt, use_context, llm)} :
          /\ agent' = [agent EXCEPT !.messages = r.messages]
          /\ last' = [op |-> "side_message", prompt |-> prompt, use_context |-> use_context,
                      error |-> r.error, ret |-> r.ret, sent |-> r.sent]
    /\ UNCHANGED <<binding, collection, sql, vec, uuid_count, inserted, insert_failed, threads>>

save_current_conversation_to_memory(fault, onDup) ==
    /\ last = Idle
    /\ RowsHeld + Len(split_messages_into_pairs(agent.messages)) <= MaxRows
    /\ uuid_count + Len(split_messages_into_pairs(agent.messages)) <= MaxUuids
    /\ \E r \in {InsertRun(ConversationRows(agent.messages), FALSE, fault, onDup)} :
          /\ sql' = r.sql
          /\ vec' = r.vec
          /\ uuid_count' = r.count
          /\ last' = [op |-> "save_current_conversation_to_memory",
                      data |-> ConversationRows(agent.messages),
                      fault |-> IF r.failed = fault THEN fault ELSE "none",
                      error |-> r.error, failed |-> r.failed,
                      ret |-> IF r.error = "" THEN r.unique_ids ELSE <<>>,
                      calls |-> r.calls]
          /\ inserted' = inserted \cup Stored(r.error, r.unique_ids, ConversationRows(agent.messages))
          /\ insert_failed' = (insert_failed \/ r.error # "")
    /\ UNCHANGED <<binding, collection, threads, agent>>

\* set_primary_directive(system_prompt); the model stops adding directives
\* to a history that is over the limit
set_primary_directive(system_prompt) ==
    /\ last = Idle
    /\ count_tokens(agent.messages) <= agent.token_limit
    /\ \E r \in {WithDirective(agent.messages, agent.primary_directive, system_prompt)} :
          agent' = [agent EXCEPT !.messages = r.messages,
                                 !.primary_directive = r.primary_directive]
    /\ last' = [op |-> "set_primary_directive", system_prompt |-> system_prompt]
    /\ UNCHANGED <<binding, collection, sql, vec, uuid_count, inserted, insert_failed, threads>>

\* ChatAgent.__init__: an empty history, no directive, summary_size as the
\* caller chose, and the conversation memory bound to its table
InitAgent ==
    /\ table_name = "conversations"
    /\ table_sql_schema = conversation_table_schema
    /\ semantic_search_field = "conversation"
    /\ unique_id_field = "id"
    /\ collection = "conversations"
    /\ sql = create_table(<<>>, "conversations", conversation_table_schema).sql
    /\ vec = set_collection(<<>>, "conversations")
    /\ uuid_count = 0
    /\ last = Idle
    /\ inserted = {}
    /\ insert_failed = FALSE
    /\ threads = NoThreads
    /\ agent \in {[name |-> "Tomatio", messages |-> <<>>, primary_directive |-> NoDirective,
                    summary_size |-> z, token_limit |-> TokenLimit] : z \in {None, "100"}}

NextAgent ==
    \/ \E system_prompt \in {Directive, NoDirective} : set_primary_directive(system_prompt)
    \/ \E user_message \in UserMessages, sumLlm \in SummaryOutcomes, llm \in LlmOutcomes,
          fault \in {"none", "insert_data", "batch_insert"}, onDup \in {"error"} :
            send_message(user_message, sumLlm, llm, fault, onDup)
    \/ \E prompt \in UserMessages, use_context \in BOOLEAN, llm \in LlmOutcomes :
            side_message(prompt, use_context, llm)
    \/ \E fault \in {"none", "insert_data"}, onDup \in {"error"} :
            save_current_conversation_to_memory(fault, onDup)
    \/ next_call

SpecAgent == InitAgent /\ [][NextAgent]_vars

\* the instance under set_table calls alone, with the tables, fields and
\* schemas of both of ChatAgent's bindings, in any combination
NextBind ==
    \/ \E name \in {"documents", "conversations"},
          sem \in {"text", "conversation", "body"}, uid \in {"id", "key"},
          schema \in {documents_table_schema, conversation_table_schema, NoneSchema},
          fault \in {"none", "create_table", "set_collection"} :
            set_table(name, sem, uid, schema, fault)
    \/ next_call

SpecBind == Init /\ [][NextBind]_vars

\* ---------------------------------------------------------------- properties
IsBound == table_name \in DOMAIN sql /\ collection \in DOMAIN vec
TableRows == sql[table_name].rows
Entries == vec[collection]
RowIds == {TableRows[i][unique_id_field] : i \in 1..Len(TableRows)}
InsertReturned == last.op = "insert" /\ last.error = ""
Supplies(r, k) == k \in DOMAIN r /\ r[k] # NullValue
Count(seq, x) == Cardinality({i \in 1..Len(seq) : seq[i] = x})

\* C1: while every insert has returned normally, the bound table and the
\* bound collection hold the same identities, each once, and every vector
\* entry's text is the semantic-field value of the row with its identity.
C1_StoresAgree ==
    (IsBound /\ ~insert_failed) =>
        /\ RowIds = EntryIds(Entries)
        /\ \A i, j \in 1..Len(TableRows) :
              i # j => TableRows[i][unique_id_field] # TableRows[j][unique_id_field]
        /\ \A i, j \in 1..Len(Entries) : i # j => Entries[i].id # Entries[j].id
        /\ \A i \in 1..Len(TableRows) : \A j \in 1..Len(Entries) :
              TableRows[i][unique_id_field] = Entries[j].id
                  => Entries[j].text = TableRows[i][semantic_search_field]

\* C2: an insert that returned kept the identity of every row that supplied
\* a non-null one: it is the identity returned for the row and the identity
\* of the row in both stores, whatever the other rows of the call supplied.
C2_SuppliedIdentityKept ==
    InsertReturned =>
        \A i \in 1..Len(last.data) :
            Supplies(last.data[i], unique_id_field) =>
                /\ last.ret[i] = last.data[i][unique_id_field]
                /\ last.data[i][unique_id_field] \in RowIds
                /\ last.data[i][unique_id_field] \in EntryIds(Entries)

Satisfying(sql_where) ==
    {TableRows[j][unique_id_field] :
        j \in {i \in 1..Len(TableRows) : Keeps(sql_where, TableRows[i])}}

\* C4: every match hybrid_query returns has the identity of a row of the
\* bound table that satisfies the predicate.
C4_MatchesSatisfyPredicate ==
    (last.op = "hybrid_query" /\ last.error = "") =>
        \A m \in 1..Len(last.ret) : last.ret[m].id \in Satisfying(last.sql_where)

\* a hybrid_query has returned a match while the collection also holds an
\* entry of a row the predicate rejects
C4_Witness ==
    /\ last.op = "hybrid_query" /\ last.error = ""
    /\ last.ret # <<>>
    /\ \E j \in 1..Len(Entries) : Entries[j].id \notin Satisfying(last.sql_where)

\* C5: when the predicate matches no row, hybrid_query returns an empty
\* result and makes no query call on the vector store.
C5_EmptySetSkipsVectorStore ==
    (/\ last.op = "hybrid_query" /\ last.sql_where # NoWhere /\ last.fault = "none"
     /\ IsBound /\ Satisfying(last.sql_where) = {}) =>
        /\ last.error = ""
        /\ last.ret = <<>>
        /\ "query" \notin Range(last.calls)

HasUnknownKey(data) ==
    \E i \in 1..Len(data) : ~(DOMAIN data[i] \subseteq DOMAIN table_sql_schema)

\* C6: an insert with check_validity set and a row with a key that is no
\* column of the bound schema raises the validation error before any side
\* effect: no row of the caller is given an identity, none is generated,
\* no store call is made and both stores stay as they were.
C6_ValidationBeforeSideEffects ==
    [][(/\ last'.op = "insert" /\ last = Idle
        /\ last'.check_validity
        /\ table_sql_schema # NoneSchema
        /\ HasUnknownKey(last'.data)) =>
            /\ last'.error = "ValueError"
            /\ last'.data_after = last'.data
            /\ last'.calls = <<>>
            /\ uuid_count' = uuid_count
            /\ sql' = sql
            /\ vec' = vec]_vars

\* a validated insert was refused for its second row while its first row
\* had no identity yet
C6_Witness ==
    /\ last.op = "insert" /\ last.check_validity /\ last.error = "ValueError"
    /\ Len(last.data) = 2
    /\ ~Supplies(last.data[1], unique_id_field)
    /\ DOMAIN last.data[1] \subseteq DOMAIN table_sql_schema
    /\ ~(DOMAIN last.data[2] \subseteq DOMAIN table_sql_schema)

\* C7: in insert the relational bulk write comes before the vector batch
\* write, and when the relational write fails the call ends with that error,
\* makes no vector write and leaves every collection as it was.
C7_RelationalBeforeVector ==
    [][(last'.op = "insert" /\ last = Idle) =>
          /\ \A i \in 1..Len(last'.calls) :
                last'.calls[i] = "batch_insert" =>
                    \E j \in 1..(i - 1) : last'.calls[j] = "insert_data"
          /\ last'.failed = "insert_data" =>
                /\ last'.error = "StoreError"
                /\ "batch_insert" \notin Range(last'.calls)
                /\ vec' = vec]_vars

\* the relational write of an insert on a bound table has failed
C7_Witness ==
    /\ last.op = "insert" /\ last.failed = "insert_data"
    /\ last.data # <<>>
    /\ IsBound

\* C8: when the vector write of insert fails after the relational write
\* succeeded, the caller gets the error, the rows of the call stay in the
\* table (appended, not rolled back) and each write was made exactly once.
C8_VectorFailureLeavesRows ==
    [][(last'.op = "insert" /\ last = Idle /\ last'.failed = "batch_insert") =>
          /\ last'.error = "StoreError"
          /\ last'.ret = <<>>
          /\ table_name \in DOMAIN sql
          /\ sql'[table_name].rows =
                sql[table_name].rows \o
                    [i \in 1..Len(last'.data_after) |->
                        StoredRow(table_sql_schema, last'.data_after[i])]
          /\ vec' = vec
          /\ Count(last'.calls, "insert_data") = 1
          /\ Count(last'.calls, "batch_insert") = 1]_vars

\* the vector write of an insert failed after its rows were stored
C8_Witness ==
    /\ last.op = "insert" /\ last.failed = "batch_insert"
    /\ last.data # <<>>
    /\ \A i \in 1..Len(last.data_after) :
          last.data_after[i][unique_id_field] \in RowIds

\* C9: get of the identity of a row that an insert was given returns
\* exactly one row, and it holds for every column the row supplied the value
\* the row supplied.
C9_RoundTrip ==
    (last.op = "get" /\ last.scalar /\ last.fault = "none") =>
        \A c \in inserted :
            c.id = last.ids[1] =>
                /\ last.error = ""
                /\ Len(last.ret) = 1
                /\ \A k \in DOMAIN c.row \cap DOMAIN table_sql_schema :
                      Supplies(c.row, k) => last.ret[1][k] = c.row[k]

\* C10: get, given one identity or a list of identities of any length,
\* returns the rows of the bound table whose identity is among them, and an
\* empty sequence, not an error, when none is stored.
C10_GetScalarOrList ==
    (last.op = "get" /\ last.fault = "none" /\ IsBound) =>
        /\ last.error = ""
        /\ last.ret = SelectSeq(TableRows,
                                LAMBDA r : r[unique_id_field] \in Range(last.ids))

\* C11: while set_table has never succeeded, insert, insert_text_in_chunks,
\* get and hybrid_query each end with an error, write to neither store and
\* leave the caller's rows as they were passed.
C11_UnboundCallsFail ==
    [][(/\ last = Idle /\ table_name = None
        /\ last'.op \in {"insert", "insert_text_in_chunks", "get", "hybrid_query"}) =>
            /\ last'.error # ""
            /\ sql' = sql
            /\ vec' = vec
            /\ last'.op = "insert" => last'.data_after = last'.data]_vars

\* C12: set_table with a schema that lacks the semantic field or the
\* identity field raises and changes nothing: no store call is made, no
\* table is created, the active collection is not switched and the binding
\* stays the one that was active.
C12_BadSchemaChangesNothing ==
    [][(/\ last = Idle /\ last'.op = "set_table"
        /\ last'.table_sql_schema # NoneSchema
        /\ \/ last'.semantic_search_field \notin DOMAIN last'.table_sql_schema
           \/ last'.unique_id_field \notin DOMAIN last'.table_sql_schema) =>
            /\ last'.error = "ValueError"
            /\ last'.calls = <<>>
            /\ sql' = sql
            /\ vec' = vec
            /\ collection' = collection
            /\ binding' = binding]_vars

\* set_table was refused for a field its schema lacks while a binding
\* was active
C12_Witness ==
    /\ last.op = "set_table" /\ last.error = "ValueError"
    /\ last.table_sql_schema # NoneSchema
    /\ last.unique_id_field \notin DOMAIN last.table_sql_schema
    /\ table_name # None
    /\ unique_id_field # last.unique_id_field

\* C13: set_table without a schema, on a table that exists and has the two
\* fields, succeeds: it makes no create_table call and binds the instance
\* to the table, to its collection and to the live schema of the table.
C13_SchemaOmittedBinds ==
    (/\ last.op = "set_table" /\ last.table_sql_schema = NoneSchema
     /\ last.fault = "none"
     /\ last.table_name \in DOMAIN sql
     /\ last.semantic_search_field \in DOMAIN sql[last.table_name].schema
     /\ last.unique_id_field \in DOMAIN sql[last.table_name].schema) =>
        /\ last.error = ""
        /\ "create_table" \notin Range(last.calls)
        /\ table_name = last.table_name
        /\ collection = last.table_name
        /\ table_sql_schema = sql[last.table_name].schema
        /\ semantic_search_field = last.semantic_search_field
        /\ unique_id_field = last.unique_id_field

\* the values a call has read so far all belong to one binding
SawOneBinding(seen) ==
    \E b \in Bindings : \A f \in DOMAIN seen : seen[f] \subseteq {b[f]}

\* C14: an insert or hybrid_query that overlaps set_table works with one
\* binding throughout: the table name, schema, semantic field, identity
\* field and active collection it reads in its steps are all those of the
\* old binding or all those of the new one.
C14_BindingSeenWhole ==
    /\ threads.ins.pc # "idle" => SawOneBinding(threads.ins.seen)
    /\ threads.hq.pc # "idle" => SawOneBinding(threads.hq.seen)

\* C15: set_table called again with the arguments of the binding that is
\* active does not raise and leaves the table's schema and rows, the
\* collections, the active collection and the binding as they were.
C15_BindingIdempotent ==
    [][(/\ last = Idle /\ last'.op = "set_table" /\ last'.fault = "none"
        /\ table_name # None
        /\ last'.table_name = table_name
        /\ last'.table_sql_schema = table_sql_schema
        /\ last'.semantic_search_field = semantic_search_field
        /\ last'.unique_id_field = unique_id_field) =>
            /\ last'.error = ""
            /\ sql' = sql
            /\ vec' = vec
            /\ collection' = collection
            /\ binding' = binding]_vars

\* set_table returned on the table it was bound to, which holds rows in
\* both stores
C15_Witness ==
    /\ last.op = "set_table" /\ last.error = ""
    /\ IsBound
    /\ last.table_name = table_name
    /\ TableRows # <<>>
    /\ Entries # <<>>

\* metadata is a mapping of columns of the bound schema that sets neither
\* the identity field nor the semantic field
PlainMetadata(metadata) ==
    /\ metadata # NoMetadata
    /\ DOMAIN metadata \subseteq DOMAIN table_sql_schema
    /\ unique_id_field \notin DOMAIN metadata
    /\ semantic_search_field \notin DOMAIN metadata

\* C16: insert_text_in_chunks adds one row per segment to the table and to
\* the collection, in segment order; the i-th row holds the i-th segment
\* under the semantic field and every metadata field with the caller's
\* value, and the identities returned, one per segment, are pairwise
\* distinct.
C16_OneRowPerSegment ==
    [][(/\ last = Idle /\ last'.op = "insert_text_in_chunks" /\ last'.fault = "none"
        /\ IsBound
        /\ last'.chunks # <<>>
        /\ PlainMetadata(last'.metadata)) =>
            LET n == Len(last'.chunks)
                rows == sql'[table_name].rows
                entries == vec'[collection]
                r0 == Len(TableRows)
                e0 == Len(Entries)
            IN /\ last'.error = ""
               /\ Len(last'.ret) = n
               /\ \A i, j \in 1..n : i # j => last'.ret[i] # last'.ret[j]
               /\ Len(rows) = r0 + n
               /\ SubSeq(rows, 1, r0) = TableRows
               /\ Len(entries) = e0 + n
               /\ SubSeq(entries, 1, e0) = Entries
               /\ \A i \in 1..n :
                     /\ rows[r0 + i][unique_id_field] = last'.ret[i]
                     /\ rows[r0 + i][semantic_search_field] = last'.chunks[i]
                     /\ entries[e0 + i].id = last'.ret[i]
                     /\ entries[e0 + i].text = last'.chunks[i]
                     /\ \A k \in DOMAIN last'.metadata :
                           /\ rows[r0 + i][k] = last'.metadata[k]
                           /\ entries[e0 + i].metadata[k] = last'.metadata[k]]_vars

\* a text of two segments was inserted with a tag
C16_Witness ==
    /\ last.op = "insert_text_in_chunks" /\ last.error = ""
    /\ Len(last.chunks) = 2
    /\ last.chunks[1] # last.chunks[2]
    /\ PlainMetadata(last.metadata)
    /\ DOMAIN last.metadata # {}
    /\ Len(last.ret) = 2

\* C17: insert_text_in_chunks with metadata that sets the identity field
\* or the semantic field raises a validation error, makes no store call
\* and leaves both stores as they were.
C17_ReservedMetadataRefused ==
    [][(/\ last = Idle /\ last'.op = "insert_text_in_chunks" /\ last'.fault = "none"
        /\ IsBound
        /\ last'.chunks # <<>>
        /\ last'.metadata # NoMetadata
        /\ \/ unique_id_field \in DOMAIN last'.metadata
           \/ semantic_search_field \in DOMAIN last'.metadata) =>
            /\ last'.error = "ValueError"
            /\ last'.calls = <<>>
            /\ sql' = sql
            /\ vec' = vec]_vars

\* C18: insert_text_in_chunks with metadata left at its default, on a text
\* that is not empty, returns one identity per segment and adds one row
\* per segment that holds the segment and a generated identity and nothing
\* else the caller chose.
C18_MetadataOmitted ==
    [][(/\ last = Idle /\ last'.op = "insert_text_in_chunks" /\ last'.fault = "none"
        /\ IsBound
        /\ last'.text # <<>>
        /\ last'.metadata = NoMetadata) =>
            LET n == Len(last'.chunks)
                rows == sql'[table_name].rows
                r0 == Len(TableRows)
            IN /\ last'.error = ""
               /\ Len(last'.ret) = n
               /\ Len(rows) = r0 + n
               /\ \A i \in 1..n :
                     /\ DOMAIN last'.data_after[i] = {semantic_search_field, unique_id_field}
                     /\ rows[r0 + i][unique_id_field] = last'.ret[i]
                     /\ rows[r0 + i][semantic_search_field] = last'.chunks[i]]_vars

\* the row supplies some of the columns of the bound schema, not all
StrictSubset(r) ==
    DOMAIN r \subseteq DOMAIN table_sql_schema /\ DOMAIN r # DOMAIN table_sql_schema

\* the row the bound table holds under an identity
StoredUnder(id) ==
    TableRows[CHOOSE j \in 1..Len(TableRows) : TableRows[j][unique_id_field] = id]

\* C19: when some row of an insert call supplies a strict subset of the
\* schema's columns, wherever in the list it stands, the metadata written
\* to the vector store for every row of the call is the row the table
\* holds for it, defaulted columns included, less the semantic field.
C19_MetadataFromStoredRows ==
    (InsertReturned /\ \E i \in 1..Len(last.data) : StrictSubset(last.data[i])) =>
        /\ Len(last.batch) = 1
        /\ Len(last.batch[1].metadatas) = Len(last.data)
        /\ \A i \in 1..Len(last.data) :
              last.batch[1].metadatas[i] =
                  DelKey(StoredUnder(last.ret[i]), semantic_search_field)

\* C20: every batch_insert call of insert is given an identity list, and
\* texts, metadatas and identities have one member per input row, the i-th
\* of each taken from the i-th row.
C20_BatchHasIdentities ==
    (last.op = "insert" /\ "batch_insert" \in Range(last.calls)) =>
        /\ Len(last.batch) = 1
        /\ last.batch[1].text_ids.given
        /\ Len(last.batch[1].texts) = Len(last.data)
        /\ Len(last.batch[1].metadatas) = Len(last.data)
        /\ Len(last.batch[1].text_ids.ids) = Len(last.data)
        /\ \A i \in 1..Len(last.data) :
              /\ last.batch[1].texts[i] = last.data_after[i][semantic_search_field]
              /\ last.batch[1].text_ids.ids[i] = last.data_after[i][unique_id_field]
              /\ last.batch[1].metadatas[i][unique_id_field] =
                    last.data_after[i][unique_id_field]

\* C21: a hybrid_query that overlaps inserts makes one relational read and
\* then one vector read; the vector read raises nothing, and every match it
\* returns is an entry the collection holds whose identity the call's own
\* relational read returned, so a row not yet in the collection is absent.
C21_OneReadEach ==
    /\ [](threads.hq.pc = "done" =>
            \/ threads.hq.error # "" /\ threads.hq.calls = <<"query_data">>
            \/ /\ threads.hq.error = ""
               /\ threads.hq.calls = <<"query_data", "query">>
               /\ \A m \in 1..Len(threads.hq.ret) :
                     threads.hq.ret[m].id \in Range(threads.hq.ids_list))
    /\ [][(threads.hq.pc = "query" /\ threads'.hq.pc # "query") =>
            /\ threads'.hq.pc = "done"
            /\ threads'.hq.error = ""
            /\ threads'.hq.ids_list = threads.hq.ids_list
            /\ \A m \in 1..Len(threads'.hq.ret) :
                  threads'.hq.ret[m] \in Range(vec[collection])]_vars

\* a hybrid_query has returned while an insert had written its row to the
\* table and not yet to the collection: the relational read returned the
\* row's identity and the result does not hold it
C21_Witness ==
    /\ threads.hq.pc = "done" /\ threads.hq.error = ""
    /\ threads.ins.pc \in {"reread", "batch"}
    /\ \E id \in Range(threads.hq.ids_list) :
          /\ id \in Range(threads.ins.c.unique_ids)
          /\ id \notin EntryIds(vec[collection])
          /\ \A m \in 1..Len(threads.hq.ret) : threads.hq.ret[m].id # id

\* C22: after any sequence of set_table calls, returned or raised, the
\* instance is unbound, with table name, schema, semantic field and
\* identity field all unset, or all four are set, both fields are columns
\* of the bound schema and the active collection is the bound table name.
C22_BindingWhole ==
    \/ /\ table_name = None
       /\ table_sql_schema = NoneSchema
       /\ semantic_search_field = None
       /\ unique_id_field = None
    \/ /\ table_name # None
       /\ table_sql_schema # NoneSchema
       /\ semantic_search_field \in DOMAIN table_sql_schema
       /\ unique_id_field \in DOMAIN table_sql_schema
       /\ collection = table_name

\* a set_table for another table has failed after creating it, on an
\* instance that was bound
C22_Witness ==
    /\ last.op = "set_table" /\ last.error = "StoreError"
    /\ last.calls = <<"create_table", "set_collection">>
    /\ table_name # None
    /\ last.table_name # table_name
    /\ last.table_name \in DOMAIN sql

\* C23: an insert of an empty list of rows, made on a bound instance with no
\* store failing, returns an empty identity list without raising and leaves
\* both stores as they were; so does save_current_conversation_to_memory when
\* the history holds no completed user/assistant pair (it inserts no row).
C23_EmptyInsertReturnsEmpty ==
    [][(/\ last = Idle
        /\ IsBound
        /\ last'.op \in {"insert", "save_current_conversation_to_memory"}
        /\ last'.data = <<>>
        /\ last'.fault = "none")
       => (/\ last'.error = ""
           /\ last'.ret = <<>>
           /\ sql' = sql
           /\ vec' = vec)]_vars

\* the history a refreshed send_message is said to leave: the directive if
\* one was set, the summary context, the user message, the reply
RefreshedHistory(primary_directive, summary, user_message, reply) ==
    (IF primary_directive = NoDirective THEN <<>>
     ELSE <<Entry("system", primary_directive)>>)
    \o <<SummaryContext(summary), Entry("user", user_message), Entry("assistant", reply)>>

\* the conversation table after the pairs of messages were added to rows
PairsSaved(rows, rowsAfter, messages) ==
    LET pairs == split_messages_into_pairs(messages)
    IN /\ Len(rowsAfter) = Len(rows) + Len(pairs)
       /\ \A i \in 1..Len(rows) : rowsAfter[i] = rows[i]
       /\ \A i \in 1..Len(pairs) :
             rowsAfter[Len(rows) + i]["conversation"] = ReprPair(pairs[i])

\* a send_message call that goes over the token limit, with a completed
\* pair in the history and neither the client nor a store failing
SendRefreshes ==
    /\ last = Idle
    /\ last'.op = "send_message"
    /\ last'.over
    /\ last'.clean
    /\ split_messages_into_pairs(agent.messages) # <<>>

\* C24: a send_message whose message takes the history over token_limit
\* refreshes the session first: the completed pairs are saved to the
\* conversation table before the history is cleared, and the call leaves the
\* history as [directive if set, summary context, user message, reply],
\* whether or not summary_size was configured.
C24_RefreshBeforeSend ==
    [][SendRefreshes
       => (/\ last'.error = ""
           /\ last'.steps = <<"summarize", "save", "clear", "directive", "context",
                              "user", "assistant">>
           /\ PairsSaved(sql[table_name].rows, sql'[table_name].rows, agent.messages)
           /\ agent'.messages = RefreshedHistory(agent.primary_directive, last'.summary,
                                                 last'.user_message, last'.ret))]_vars

\* C25: side_message leaves the history as it was, for either value of
\* use_context and whether it returns or the client fails; a send_message
\* that returns has appended the user message and then the reply, and when
\* no refresh was needed nothing else of the history has changed.
C25_SideMessageKeepsHistory ==
    [][/\ (last = Idle /\ last'.op = "side_message")
           => agent'.messages = agent.messages
       /\ (last = Idle /\ last'.op = "send_message" /\ last'.error = "")
           => (/\ Len(agent'.messages) >= 2
               /\ SubSeq(agent'.messages, Len(agent'.messages) - 1, Len(agent'.messages))
                    = <<Entry("user", last'.user_message), Entry("assistant", last'.ret)>>
               /\ ~last'.over
                    => agent'.messages = agent.messages
                                         \o <<Entry("user", last'.user_message),
                                              Entry("assistant", last'.ret)>>)]_vars

\* a side_message with use_context, on a history that is not empty, whose
\* client call failed
C25_Witness ==
    /\ last.op = "side_message"
    /\ last.use_context
    /\ last.error = "APIError"
    /\ agent.messages # <<>>
    /\ last.sent = Append(agent.messages, Entry("user", last.prompt))

====
